---- MODULE Spec2Model ----
(***************************************************************************)
(* A model of immeta's TIFF reader (src/common/tiff.rs): the document      *)
(* opener, the IFD chain walker, the directory entry reader, the type      *)
(* catalog and the embedded / referenced value sequences.                  *)
(*                                                                         *)
(* Numbers.  TLC's integers are 32-bit signed, so a u32 of the program is  *)
(* kept as the pair <<hi, lo>> of its two 16-bit halves; a u16, a u8 and a *)
(* stream position are plain naturals.  Every decoded value is a sequence  *)
(* of integers: <<b>> for a byte, <<v>> for a 16-bit value, <<hi, lo>> for *)
(* a 32-bit value, the bytes of the text for an Ascii string.              *)
(***************************************************************************)
EXTENDS Integers, Sequences, FiniteSets, TLC

VARIABLES
    stream,           \* the bytes of the wrapped Read + Seek source
    pos,              \* the source's position
    openRes,          \* what TiffReader::ifds returned: "none" before the call
    byte_order,       \* LazyIfds.byte_order
    next_ifd_offset,  \* LazyIfds.next_ifd_offset (the shared Cell)
    ifdsOut,          \* the results of the pulls of Ifds iterators, in pull order
    ifd,              \* the Ifd the caller holds
    ifdOut,           \* the results of the pulls on that Ifd
    entry,            \* the Entry the caller holds
    vals,             \* the EntryValues the caller holds (Entry::values)
    valsOut,          \* the results of the pulls on that EntryValues
    allOut,           \* the result of the last Entry::all_values call
    u32In,            \* the arguments of a direct read_from_u32 call
    u32Out,           \* its result
    io                \* the stream operations the last handler performed

vars == <<stream, pos, openRes, byte_order, next_ifd_offset, ifdsOut, ifd, ifdOut,
          entry, vals, valsOut, allOut, u32In, u32Out, io>>

(***************************************************************************)
(* Bounds of the model.                                                    *)
(***************************************************************************)
MaxPulls == 3
MaxIters == 2
MaxCount == 5

(***************************************************************************)
(* Program constants.                                                      *)
(***************************************************************************)
Magic == 42
FirstIfdOffset == 4
EntryBytes == 12
EmbedLimit == 4

TwoPow8 == 2 ^ 8
TwoPow16 == 2 ^ 16
\* Positions at or past FarPos all lie behind the end of every stream of the model.
FarPos == 2 ^ 24

(***************************************************************************)
(* 32-bit unsigned arithmetic on <<hi, lo>> pairs.                         *)
(***************************************************************************)
U32(n) == <<n \div TwoPow16, n % TwoPow16>>

U32Lt(a, b) == a[1] < b[1] \/ (a[1] = b[1] /\ a[2] < b[2])
U32Ge(a, b) == ~U32Lt(a, b)

\* a + b (mod 2^32), and whether the exact sum needs more than 32 bits
U32Add(a, b) ==
    LET lo == a[2] + b[2]
        hi == a[1] + b[1] + (lo \div TwoPow16)
    IN  <<hi % TwoPow16, lo % TwoPow16>>

U32AddOverflows(a, b) ==
    a[1] + b[1] + ((a[2] + b[2]) \div TwoPow16) >= TwoPow16

\* k * a (mod 2^32) for a small k, and whether the exact product needs more than 32 bits
U32MulSmall(k, a) ==
    LET lo == k * a[2]
        hi == k * a[1] + (lo \div TwoPow16)
    IN  <<hi % TwoPow16, lo % TwoPow16>>

U32MulOverflows(k, a) ==
    k * a[1] + ((k * a[2]) \div TwoPow16) >= TwoPow16

\* the stream position a u32 offset names (saturating at FarPos)
U32Pos(a) ==
    IF a[1] >= TwoPow8 THEN FarPos ELSE a[1] * TwoPow16 + a[2]

None == [kind |-> "None"]
Some(v) == [kind |-> "Some", v |-> v]
Panic == [kind |-> "Panic"]
Err(e) == [kind |-> "Err", err |-> e]

(***************************************************************************)
(* The stream: std::io::Read + Seek over an in-memory buffer, and the      *)
(* byte-order aware reads of utils::ByteOrderReadExt.                      *)
(***************************************************************************)
\* read_exact of n bytes at position p
StreamRead(s, p, n) ==
    IF p + n <= Len(s)
    THEN [ok |-> TRUE, bytes |-> SubSeq(s, p + 1, p + n), pos |-> p + n]
    ELSE [ok |-> FALSE, bytes |-> <<>>, pos |-> IF p < Len(s) THEN Len(s) ELSE p]

\* a source that stays where it was: the seek is left out
SeekSkipped(p, target) == p

\* source.seek(SeekFrom::Start(target)) of a source at position p
SeekStart(p, target) == target

DecodeU16(bs, order) ==
    IF order = "Little" THEN bs[1] + TwoPow8 * bs[2]
                        ELSE TwoPow8 * bs[1] + bs[2]

DecodeU32(bs, order) ==
    IF order = "Little"
    THEN <<bs[3] + TwoPow8 * bs[4], bs[1] + TwoPow8 * bs[2]>>
    ELSE <<TwoPow8 * bs[1] + bs[2], TwoPow8 * bs[3] + bs[4]>>

(***************************************************************************)
(* TiffReader::ifds: the document opener.                                  *)
(***************************************************************************)
\* a reader that takes "II" for big-endian and "MM" for little-endian
BomOrderSwapped(bom) ==
    IF bom = <<73, 73>> THEN "Big"
    ELSE IF bom = <<77, 77>> THEN "Little"
    ELSE "none"

BomOrder(bom) ==
    IF bom = <<73, 73>> THEN "Little"           \* b"II"
    ELSE IF bom = <<77, 77>> THEN "Big"         \* b"MM"
    ELSE "none"

MagicOk(magic) == magic = Magic

\* what ifds() returns on source s read from position p: the result, the byte
\* order, the seed of the chain cursor and the position the source is left at
ifds(s, p) ==
    LET r1 == StreamRead(s, p, 2) IN
    IF ~r1.ok
    THEN [res |-> "UnexpectedEof", order |-> "none", cursor |-> 0, pos |-> r1.pos,
          io |-> <<"read_exact">>]
    ELSE LET order == BomOrder(r1.bytes) IN
         IF order = "none"
         THEN [res |-> "InvalidFormat", order |-> "none", cursor |-> 0, pos |-> r1.pos,
               io |-> <<"read_exact">>]
         ELSE LET r2 == StreamRead(s, r1.pos, 2) IN
              IF ~r2.ok
              THEN [res |-> "UnexpectedEof", order |-> "none", cursor |-> 0,
                    pos |-> r2.pos, io |-> <<"read_exact", "read_u16">>]
              ELSE IF ~MagicOk(DecodeU16(r2.bytes, order))
              THEN [res |-> "InvalidFormat", order |-> "none", cursor |-> 0,
                    pos |-> r2.pos, io |-> <<"read_exact", "read_u16">>]
              ELSE [res |-> "Ok", order |-> order, cursor |-> FirstIfdOffset,
                    pos |-> r2.pos, io |-> <<"read_exact", "read_u16">>]

(***************************************************************************)
(* Ifds::next / Ifds::read_ifd: the IFD chain walker.                      *)
(***************************************************************************)
\* a walker that does not look for the end of the chain
ChainEndedUnchecked(cursor) == FALSE

ChainEnded(cursor) == cursor = 0

\* a walker that forgets the two bytes of the entry count
NextIfdOffsetOffsetNoCount(current_ifd_offset, current_ifd_size) ==
    current_ifd_offset + current_ifd_size * EntryBytes

NextIfdOffsetOffset(current_ifd_offset, current_ifd_size) ==
    current_ifd_offset + 2 + current_ifd_size * EntryBytes

\* a walker whose cursor goes back to the first IFD
CursorRestarted(chain_pointer) == FirstIfdOffset

\* the cursor after an IFD was read: the 16-bit chain pointer
CursorAfter(chain_pointer) == chain_pointer

\* one pull: the item yielded, the cursor, the position and the stream operations
read_ifd(s, order, cursor, p) ==
    IF ChainEnded(cursor)
    THEN [out |-> None, cursor |-> cursor, pos |-> p, io |-> <<>>]
    ELSE
    LET r1 == StreamRead(s, SeekStart(p, cursor), 2) IN
    IF ~r1.ok
    THEN [out |-> Err("UnexpectedEof"), cursor |-> cursor, pos |-> r1.pos,
          io |-> <<"seek", "read_u16">>]
    ELSE
    LET current_ifd_size == DecodeU16(r1.bytes, order) IN
    IF current_ifd_size = 0
    THEN [out |-> Err("InvalidFormat"), cursor |-> cursor, pos |-> r1.pos,
          io |-> <<"seek", "read_u16">>]
    ELSE
    LET r2 == StreamRead(s, SeekStart(r1.pos,
                                  NextIfdOffsetOffset(cursor, current_ifd_size)), 2) IN
    IF ~r2.ok
    THEN [out |-> Err("UnexpectedEof"), cursor |-> cursor, pos |-> r2.pos,
          io |-> <<"seek", "read_u16", "seek", "read_u16">>]
    ELSE [out |-> [kind |-> "Ifd", ifd_offset |-> cursor,
                   total_entries |-> current_ifd_size],
          cursor |-> CursorAfter(DecodeU16(r2.bytes, order)), pos |-> r2.pos,
          io |-> <<"seek", "read_u16", "seek", "read_u16">>]

(***************************************************************************)
(* EntryType and its size.                                                 *)
(***************************************************************************)
KnownTypes ==
    <<"Byte", "Ascii", "Short", "Long", "Rational", "SignedByte", "Undefined",
      "SignedShort", "SignedLong", "SignedRational", "Float", "Double">>

ReprTypes == {KnownTypes[i] : i \in 1..Len(KnownTypes)}

\* From<u16> for EntryType; Unknown carries its code
EntryTypeFrom(n) ==
    IF n \in 1..Len(KnownTypes)
    THEN [name |-> KnownTypes[n], code |-> 0]
    ELSE [name |-> "Unknown", code |-> n]

\* T::entry_type()
ReprEntryType(T) == [name |-> T, code |-> 0]

\* EntryType::size: Some(bytes), or None for Unknown
EntryTypeSize(t) ==
    CASE t.name \in {"Byte", "Ascii", "SignedByte", "Undefined"} -> Some(1)
      [] t.name \in {"Short", "SignedShort"} -> Some(2)
      [] t.name \in {"Long", "SignedLong", "SignedRational", "Float"} -> Some(4)
      [] t.name \in {"Rational", "Double"} -> Some(8)
      [] OTHER -> None

(***************************************************************************)
(* Ifd::next / Ifd::read_entry: the directory entry reader.                *)
(***************************************************************************)
NoIfd == [kind |-> "NoIfd"]
NoEntry == [kind |-> "NoEntry"]

\* a reader that forgets the two bytes of the entry count
EntryOffsetNoCount(ifd_offset, current_entry) == ifd_offset + current_entry * EntryBytes

EntryOffset(ifd_offset, current_entry) == ifd_offset + 2 + current_entry * EntryBytes

EntryIo == <<"seek", "read_u16", "read_u16", "read_u32", "read_u32">>

\* the stream operations of read_entry, numbered from 1; the source is any
\* Read + Seek: an in-memory buffer fails only by a short read, a file or a
\* socket may report an error on any operation
EntryOps == 1..Len(EntryIo)
NoFault == 0

\* one read_entry of Ifd d on a source at position p that reports an error on
\* its stream operation fail (NoFault: on none): the item yielded, the Ifd
\* afterwards, the position and the stream operations
read_entry(s, order, d, p, fail) ==
    LET at == SeekStart(p, EntryOffset(d.ifd_offset, d.current_entry))
        rt == StreamRead(s, at, 2)
        ry == StreamRead(s, rt.pos, 2)
        rc == StreamRead(s, ry.pos, 4)
        ro == StreamRead(s, rc.pos, 4)
    IN
    IF fail = 1 THEN [out |-> Err("Io"), ifd |-> d, pos |-> p,
                      io |-> SubSeq(EntryIo, 1, 1)]
    ELSE IF fail = 2 \/ ~rt.ok
         THEN [out |-> Err("UnexpectedEof"), ifd |-> d,
               pos |-> IF fail = 2 THEN at ELSE rt.pos, io |-> SubSeq(EntryIo, 1, 2)]
    ELSE IF fail = 3 \/ ~ry.ok
         THEN [out |-> Err("UnexpectedEof"), ifd |-> d,
               pos |-> IF fail = 3 THEN rt.pos ELSE ry.pos, io |-> SubSeq(EntryIo, 1, 3)]
    ELSE IF fail = 4 \/ ~rc.ok
         THEN [out |-> Err("UnexpectedEof"), ifd |-> d,
               pos |-> IF fail = 4 THEN ry.pos ELSE rc.pos, io |-> SubSeq(EntryIo, 1, 4)]
    ELSE IF fail = 5 \/ ~ro.ok
         THEN [out |-> Err("UnexpectedEof"), ifd |-> d,
               pos |-> IF fail = 5 THEN rc.pos ELSE ro.pos, io |-> EntryIo]
    ELSE [out |-> [kind |-> "Entry",
                   tag |-> DecodeU16(rt.bytes, order),
                   entry_type |-> EntryTypeFrom(DecodeU16(ry.bytes, order)),
                   count |-> DecodeU32(rc.bytes, order),
                   offset |-> DecodeU32(ro.bytes, order)],
          ifd |-> [d EXCEPT !.current_entry = d.current_entry + 1],
          pos |-> ro.pos, io |-> EntryIo]

\* Ifd::next
IfdPull(s, order, d, p, fail) ==
    IF d.current_entry = d.total_entries
    THEN [out |-> None, ifd |-> d, pos |-> p, io |-> <<>>]
    ELSE read_entry(s, order, d, p, fail)

(***************************************************************************)
(* entry_types: the type catalog.                                          *)
(***************************************************************************)
\* nbyte(s, n) = ((s >> 8 * (3 - n)) & 0xFF) as u8, for n <= 3 (asserted)
nbyteAsserts(n) == n <= 3

nbyteShift(n) == 8 * (3 - n)

nbyte(s, n) ==
    LET sh == nbyteShift(n) IN
    IF sh >= 16 THEN (s[1] \div (2 ^ (sh - 16))) % TwoPow8
                ELSE (s[2] \div (2 ^ sh)) % TwoPow8

\* `as i8`, `as i16`, and the high half of an `as i32`
AsI8(b) == IF b >= 128 THEN b - TwoPow8 ELSE b
AsI16(v) == IF v >= 32768 THEN v - TwoPow16 ELSE v

\* the four recovered bytes of an embedded word
RecoveredBytes(source) ==
    <<nbyte(source, 0), nbyte(source, 1), nbyte(source, 2), nbyte(source, 3)>>

\* find_substrings: the (start, end) pairs, zero based, end exclusive, of the
\* zero-terminated runs of s scanned from index i with the current run starting at p
RECURSIVE find_substrings(_, _, _)
find_substrings(s, p, i) ==
    IF i >= Len(s) THEN <<>>
    ELSE IF s[i + 1] = 0
         THEN <<(<<p, i>>)>> \o find_substrings(s, i + 1, i + 1)
         ELSE find_substrings(s, p, i + 1)

\* the read_from_u32 guards of the fixed-width types
ByteGuard(n, count) == U32Ge(n, count) \/ U32Ge(n, U32(4))
ShortGuard(n, count) == U32Ge(n, count) \/ U32Ge(n, U32(2))
LongGuard(n, count) == n # U32(1)
SignedLongGuard(n, count) == U32Ge(n, U32(1))
FloatGuard(n, count) == U32Ge(n, U32(1))

AsciiFromU32(source, n, count) ==
    IF U32Ge(n, count) \/ U32Ge(n, U32(4)) THEN None
    ELSE IF U32Lt(U32(4), count) THEN Panic        \* &bs[..count as usize]
    ELSE LET bs == RecoveredBytes(source)
             substrings == find_substrings(SubSeq(bs, 1, count[2]), 0, 0)
         IN  IF n[2] < Len(substrings)
             THEN Some(SubSeq(bs, substrings[n[2] + 1][1] + 1, substrings[n[2] + 1][2]))
             ELSE None

ShortFromU32(source, n) ==
    nbyte(source, 2 * n[2] + 1) * TwoPow8 + nbyte(source, 2 * n[2])

\* T::read_from_u32(source, n, count): Some(value), None, or a panic
read_from_u32(T, source, n, count) ==
    CASE T \in {"Byte", "Undefined"} ->
            IF ByteGuard(n, count) THEN None
            ELSE IF ~nbyteAsserts(n[2]) THEN Panic
            ELSE Some(<<nbyte(source, n[2])>>)
      [] T = "SignedByte" ->
            IF ByteGuard(n, count) THEN None
            ELSE IF ~nbyteAsserts(n[2]) THEN Panic
            ELSE Some(<<AsI8(nbyte(source, n[2]))>>)
      [] T = "Ascii" -> AsciiFromU32(source, n, count)
      [] T = "Short" ->
            IF ShortGuard(n, count) THEN None
            ELSE IF ~nbyteAsserts(2 * n[2] + 1) THEN Panic
            ELSE Some(<<ShortFromU32(source, n)>>)
      [] T = "SignedShort" ->
            IF ShortGuard(n, count) THEN None
            ELSE IF ~nbyteAsserts(2 * n[2] + 1) THEN Panic
            ELSE Some(<<AsI16(ShortFromU32(source, n))>>)
      [] T = "Long" ->
            IF LongGuard(n, count) THEN None
            ELSE Some(<<nbyte(source, 3) * TwoPow8 + nbyte(source, 2),
                        nbyte(source, 1) * TwoPow8 + nbyte(source, 0)>>)
      [] T = "SignedLong" ->
            IF SignedLongGuard(n, count) THEN None
            ELSE Some(<<AsI16(nbyte(source, 3) * TwoPow8 + nbyte(source, 2)),
                        nbyte(source, 1) * TwoPow8 + nbyte(source, 0)>>)
      [] T = "Float" ->
            IF FloatGuard(n, count) THEN None
            ELSE Some(source)                      \* mem::transmute: the bits
      [] OTHER -> None                             \* Rational, SignedRational, Double

\* Ascii::read_from: the bytes up to the terminator; len is String::len, the
\* UTF-8 length of the chars pushed (`b as char` takes two bytes from 128 on)
RECURSIVE AsciiReadFrom(_, _, _, _)
AsciiReadFrom(s, p, acc, len) ==
    IF p >= Len(s)
    THEN [ok |-> FALSE, n |-> U32(0), v |-> <<>>, pos |-> p]
    ELSE IF s[p + 1] = 0
         THEN [ok |-> TRUE, n |-> U32(len + 1), v |-> acc, pos |-> p + 1]
         ELSE AsciiReadFrom(s, p + 1, Append(acc, s[p + 1]),
                            len + (IF s[p + 1] < 128 THEN 1 ELSE 2))

\* the fixed-width read_from: how many bytes it reads and reports
ReadWidth(T) ==
    CASE T \in {"Byte", "SignedByte", "Undefined"} -> 1
      [] T \in {"Short", "SignedShort"} -> 2
      [] T \in {"Long", "SignedLong", "Float"} -> 4
      [] OTHER -> 8                                \* Rational, SignedRational, Double

FixedValue(T, bs, order) ==
    CASE T \in {"Byte", "Undefined"} -> <<bs[1]>>
      [] T = "SignedByte" -> <<AsI8(bs[1])>>
      [] T = "Short" -> <<DecodeU16(bs, order)>>
      [] T = "SignedShort" -> <<AsI16(DecodeU16(bs, order))>>
      [] T \in {"Long", "Float"} -> DecodeU32(bs, order)
      [] T = "SignedLong" ->
            <<AsI16(DecodeU32(bs, order)[1]), DecodeU32(bs, order)[2]>>
      [] T = "Rational" ->
            DecodeU32(SubSeq(bs, 1, 4), order) \o DecodeU32(SubSeq(bs, 5, 8), order)
      [] T = "SignedRational" ->
            <<AsI16(DecodeU32(SubSeq(bs, 1, 4), order)[1]),
              DecodeU32(SubSeq(bs, 1, 4), order)[2],
              AsI16(DecodeU32(SubSeq(bs, 5, 8), order)[1]),
              DecodeU32(SubSeq(bs, 5, 8), order)[2]>>
      [] OTHER ->                                  \* Double: the 64 bits
            IF order = "Little"
            THEN DecodeU32(SubSeq(bs, 5, 8), order) \o DecodeU32(SubSeq(bs, 1, 4), order)
            ELSE DecodeU32(SubSeq(bs, 1, 4), order) \o DecodeU32(SubSeq(bs, 5, 8), order)

\* T::read_from(source, byte_order) at position p: (bytes_read, value) or an error
read_from(T, s, p, order) ==
    IF T = "Ascii" THEN AsciiReadFrom(s, p, <<>>, 0)
    ELSE LET r == StreamRead(s, p, ReadWidth(T)) IN
         IF ~r.ok THEN [ok |-> FALSE, n |-> U32(0), v |-> <<>>, pos |-> r.pos]
         ELSE [ok |-> TRUE, n |-> U32(ReadWidth(T)), v |-> FixedValue(T, r.bytes, order),
               pos |-> r.pos]

\* T::read_many_from: n values from position p on, or the first error; i counts
\* the values read so far
RECURSIVE read_many_from(_, _, _, _, _, _, _)
read_many_from(T, s, p, order, n, i, target) ==
    IF n = U32(i) THEN [ok |-> TRUE, v |-> target, pos |-> p]
    ELSE LET r == read_from(T, s, p, order) IN
         IF ~r.ok THEN [ok |-> FALSE, v |-> target, pos |-> r.pos]
         ELSE read_many_from(T, s, r.pos, order, n, i + 1, Append(target, r.v))

(***************************************************************************)
(* Entry::values, Entry::all_values and the value sequences.               *)
(*                                                                         *)
(* overflow_checks is the build's choice for u32 arithmetic: a build with  *)
(* overflow checks panics where the exact result needs more than 32 bits,  *)
(* a build without wraps.                                                  *)
(***************************************************************************)
NoVals == [kind |-> "NoVals"]
NoCall == [kind |-> "NoCall"]
NoSeq(T) == [kind |-> "NoSeq", T |-> T]

\* entry_type_size as u32 * self.count <= 4
FitsEmbedded(total) == ~U32Lt(U32(EmbedLimit), total)

TotalSize(entry_type_size, count) == U32MulSmall(entry_type_size, count)

ValueSeq(kind, T, e) ==
    [kind |-> kind, T |-> T, current |-> U32(0), count |-> e.count, data |-> e.offset]

\* Entry::values::<T>() of entry e
values(e, T, overflow_checks) ==
    IF e.entry_type # ReprEntryType(T) THEN NoSeq(T)
    ELSE LET size == EntryTypeSize(ReprEntryType(T)) IN
         IF size.kind = "None" THEN NoSeq(T)
         ELSE IF overflow_checks /\ U32MulOverflows(size.v, e.count)
              THEN [kind |-> "Panic", T |-> T]
         ELSE IF FitsEmbedded(TotalSize(size.v, e.count))
              THEN ValueSeq("Embedded", T, e)
              ELSE ValueSeq("Referenced", T, e)

\* EmbeddedValues::read_value
EmbeddedPull(v) ==
    IF U32Ge(v.current, v.count)
    THEN [out |-> None, vals |-> v]
    ELSE [out |-> read_from_u32(v.T, v.data, v.current, v.count),
          vals |-> [v EXCEPT !.current = U32Add(v.current, U32(1))]]

\* ReferencedValues::read_value
ReferencedPull(s, order, v, p, overflow_checks) ==
    IF U32Ge(v.current, v.count)
    THEN [out |-> None, vals |-> v, pos |-> p, io |-> <<>>]
    ELSE LET r == read_from(v.T, s, SeekStart(p, U32Pos(v.data)), order) IN
         IF ~r.ok
         THEN [out |-> Err("UnexpectedEof"), vals |-> v, pos |-> r.pos,
               io |-> <<"seek", "read_from">>]
         ELSE IF overflow_checks /\ U32AddOverflows(v.data, r.n)
         THEN [out |-> Panic, vals |-> v, pos |-> r.pos, io |-> <<"seek", "read_from">>]
         ELSE [out |-> Some(r.v),
               vals |-> [v EXCEPT !.data = U32Add(v.data, r.n),
                                  !.current = U32Add(v.current, U32(1))],
               pos |-> r.pos, io |-> <<"seek", "read_from">>]

\* EntryValues::next
ValuesPull(s, order, v, p, overflow_checks) ==
    IF v.kind = "Embedded"
    THEN [out |-> EmbeddedPull(v).out, vals |-> EmbeddedPull(v).vals, pos |-> p,
          io |-> <<>>]
    ELSE ReferencedPull(s, order, v, p, overflow_checks)

\* collect() of an Embedded sequence: the values up to its first None
RECURSIVE CollectEmbedded(_, _)
CollectEmbedded(v, acc) ==
    LET r == EmbeddedPull(v) IN
    IF r.out.kind = "Some" THEN CollectEmbedded(r.vals, Append(acc, r.out.v))
    ELSE IF r.out.kind = "Panic" THEN Panic
    ELSE [kind |-> "Ok", v |-> acc]

\* Entry::all_values::<T>() of entry e
all_values(e, T, s, order, p, overflow_checks) ==
    IF e.entry_type # ReprEntryType(T)
    THEN [out |-> NoSeq(T), pos |-> p, io |-> <<>>]
    ELSE LET size == EntryTypeSize(ReprEntryType(T)) IN
         IF size.kind = "None" THEN [out |-> NoSeq(T), pos |-> p, io |-> <<>>]
         ELSE IF overflow_checks /\ U32MulOverflows(size.v, e.count)
         THEN [out |-> Panic, pos |-> p, io |-> <<>>]
         ELSE IF FitsEmbedded(TotalSize(size.v, e.count))
         THEN [out |-> CollectEmbedded(ValueSeq("Embedded", T, e), <<>>), pos |-> p,
               io |-> <<>>]
         ELSE LET r == read_many_from(T, s, SeekStart(p, U32Pos(e.offset)), order,
                                      e.count, 0, <<>>) IN
              [out |-> IF r.ok THEN [kind |-> "Ok", v |-> r.v] ELSE Err("UnexpectedEof"),
               pos |-> r.pos, io |-> <<"seek", "read_many_from">>]

(***************************************************************************)
(* The documents the model reads: synthetic buffers, written in the        *)
(* document's byte order.                                                  *)
(***************************************************************************)
MaxEntries == 2

EncU16(v, order) ==
    IF order = "Little" THEN <<v % TwoPow8, v \div TwoPow8>>
                        ELSE <<v \div TwoPow8, v % TwoPow8>>

EncU32(a, order) ==
    IF order = "Little" THEN EncU16(a[2], order) \o EncU16(a[1], order)
                        ELSE EncU16(a[1], order) \o EncU16(a[2], order)

Bom(order) == IF order = "Little" THEN <<73, 73>> ELSE <<77, 77>>

Header(order) == Bom(order) \o EncU16(Magic, order)

\* a directory entry whose value field holds the stream bytes vbytes
EncEntry(order, tag, code, count, vbytes) ==
    EncU16(tag, order) \o EncU16(code, order) \o EncU32(count, order) \o vbytes

Orders == {"Little", "Big"}

\* the data area of the documents: five zero-terminated strings, the second a
\* byte above 127 and the last two empty, then three bytes without a terminator
DataArea == <<97, 98, 0, 200, 0, 99, 0, 0, 0, 7, 1, 2>>

\* the k-th entry of the first IFD of a chain document
ChainEntry(order, k, dataOff) ==
    CASE k = 1 -> EncEntry(order, 256, 3, U32(1), <<100, 0, 0, 0>>)
      [] k = 2 -> EncEntry(order, 270, 2, U32(2), EncU32(U32(dataOff), order))
      [] OTHER -> EncEntry(order, 257, 1, U32(3), <<1, 2, 3, 4>>)

RECURSIVE ChainEntries(_, _, _)
ChainEntries(order, n, dataOff) ==
    IF n = 0 THEN <<>>
    ELSE ChainEntries(order, n - 1, dataOff) \o ChainEntry(order, n, dataOff)

\* where the second IFD and the data area of a chain document lie
SecondIfdOffset(n1) == FirstIfdOffset + 2 + EntryBytes * n1 + 2
DataOffset(n1) == SecondIfdOffset(n1) + 2 + EntryBytes + 2

\* a document of two IFD blocks: the first with n1 entries, declaring decl1 of
\* them, and the chain pointer next1; the second with one entry, declaring
\* decl2, and the chain pointer next2
ChainDoc(order, n1, decl1, next1, decl2, next2) ==
    Header(order)
    \o EncU16(decl1, order) \o ChainEntries(order, n1, DataOffset(n1))
    \o EncU16(next1, order)
    \o EncU16(decl2, order) \o EncEntry(order, 258, 4, U32(1), <<1, 2, 3, 4>>)
    \o EncU16(next2, order)
    \o DataArea

ChainDocsOf(o, n1) ==
    {ChainDoc(o, n1, d1, SecondIfdOffset(n1), d2, x2) :
        d1 \in {0, n1}, d2 \in {0, 1}, x2 \in {0, FirstIfdOffset}}
    \cup {ChainDoc(o, n1, n1, x1, 1, 0) : x1 \in {0, FirstIfdOffset, 255}}

ChainDocs == UNION {ChainDocsOf(o, n1) : o \in Orders, n1 \in 1..MaxEntries}

HeaderDocs ==
    {bom \o magic \o SubSeq(ChainDoc("Little", 1, 1, 0, 1, 0), 5, 20) :
        bom \in {<<73, 73>>, <<77, 77>>, <<88, 88>>, <<73, 77>>},
        magic \in {<<42, 0>>, <<0, 42>>, <<1, 0>>}}

TruncatedDocs ==
    {SubSeq(ChainDoc(o, 1, 1, SecondIfdOffset(1), 1, 0), 1, len) :
        o \in Orders, len \in 0..(DataOffset(1) + 3)}

DocStreams == ChainDocs \cup HeaderDocs \cup TruncatedDocs

(***************************************************************************)
(* The state machine.                                                      *)
(***************************************************************************)
NotCalled == [kind |-> "NotCalled"]

Idle ==
    /\ ifdsOut = <<>> /\ ifd = NoIfd /\ ifdOut = <<>> /\ entry = NoEntry
    /\ vals = NoVals /\ valsOut = <<>> /\ allOut = NoCall
    /\ u32In = NotCalled /\ u32Out = NotCalled /\ io = <<>>

\* TiffReader::new over one of the documents
Init ==
    /\ stream \in DocStreams
    /\ pos = 0
    /\ openRes = "none" /\ byte_order = "none" /\ next_ifd_offset = 0
    /\ Idle

\* a panic ends the program
Panicked ==
    \/ vals.kind = "Panic"
    \/ (allOut.kind = "Called" /\ allOut.out.kind = "Panic")
    \/ u32Out.kind = "Panic"
    \/ (valsOut # <<>> /\ valsOut[Len(valsOut)].kind = "Panic")

OverflowChecks == BOOLEAN

\* TiffReader::ifds
Open ==
    /\ openRes = "none"
    /\ LET r == ifds(stream, pos) IN
        /\ openRes' = r.res
        /\ byte_order' = r.order
        /\ next_ifd_offset' = r.cursor
        /\ pos' = r.pos
        /\ io' = r.io
    /\ UNCHANGED <<stream, ifdsOut, ifd, ifdOut, entry, vals, valsOut, allOut,
                   u32In, u32Out>>

HeldIfd(out) ==
    [kind |-> "Ifd", ifd_offset |-> out.ifd_offset, current_entry |-> 0,
     total_entries |-> out.total_entries]

\* Ifds::next on iterator it of the document; the caller keeps the Ifd it
\* holds (keep) or takes the one yielded
IfdsNext(it, keep) ==
    /\ openRes = "Ok" /\ ~Panicked
    /\ Len(ifdsOut) < MaxPulls
    /\ LET r == read_ifd(stream, byte_order, next_ifd_offset, pos) IN
        /\ ifdsOut' = Append(ifdsOut, [it |-> it, out |-> r.out])
        /\ next_ifd_offset' = r.cursor
        /\ pos' = r.pos
        /\ io' = r.io
        /\ IF r.out.kind = "Ifd" /\ ~keep
           THEN ifd' = HeldIfd(r.out) /\ ifdOut' = <<>>
           ELSE UNCHANGED <<ifd, ifdOut>>
    /\ UNCHANGED <<stream, openRes, byte_order, entry, vals, valsOut, allOut,
                   u32In, u32Out>>

\* Ifd::next on the Ifd held, on a source that reports an error on the stream
\* operation fail of the pull; the caller takes the Entry yielded unless it is
\* reading the values of the Entry it holds
IfdNext(fail) ==
    /\ ifd.kind = "Ifd" /\ ~Panicked
    /\ Len(ifdOut) < MaxPulls
    /\ LET r == IfdPull(stream, byte_order, ifd, pos, fail) IN
        /\ ifdOut' = Append(ifdOut, r.out)
        /\ ifd' = r.ifd
        /\ pos' = r.pos
        /\ io' = r.io
        /\ entry' = IF r.out.kind = "Entry" /\ vals = NoVals /\ allOut = NoCall
                    THEN r.out ELSE entry
    /\ UNCHANGED <<stream, openRes, byte_order, next_ifd_offset, ifdsOut, vals,
                   valsOut, allOut, u32In, u32Out>>

\* Entry::values::<T>() on the Entry held; the caller asks an Entry it holds
\* for one sequence, and reads it in one representation
ValuesCall(T, oc) ==
    /\ entry.kind = "Entry" /\ ~Panicked
    /\ vals = NoVals
    /\ IF allOut = NoCall THEN TRUE ELSE allOut.T = T
    /\ vals' = values(entry, T, oc)
    /\ valsOut' = <<>>
    /\ io' = <<>>
    /\ UNCHANGED <<stream, pos, openRes, byte_order, next_ifd_offset, ifdsOut, ifd,
                   ifdOut, entry, allOut, u32In, u32Out>>

\* EntryValues::next on the sequence held
ValuesNext(oc) ==
    /\ vals.kind \in {"Embedded", "Referenced"} /\ ~Panicked
    /\ Len(valsOut) < MaxPulls
    /\ LET r == ValuesPull(stream, byte_order, vals, pos, oc) IN
        /\ valsOut' = Append(valsOut, r.out)
        /\ vals' = r.vals
        /\ pos' = r.pos
        /\ io' = r.io
    /\ UNCHANGED <<stream, openRes, byte_order, next_ifd_offset, ifdsOut, ifd,
                   ifdOut, entry, allOut, u32In, u32Out>>

\* Entry::all_values::<T>() on the Entry held, in the representation of the
\* sequence the caller holds, if it holds one
AllValues(T, oc) ==
    /\ entry.kind = "Entry" /\ ~Panicked
    /\ allOut = NoCall
    /\ IF vals = NoVals THEN TRUE ELSE vals.T = T
    /\ LET r == all_values(entry, T, stream, byte_order, pos, oc) IN
        /\ allOut' = [kind |-> "Called", T |-> T, out |-> r.out]
        /\ pos' = r.pos
        /\ io' = r.io
    /\ UNCHANGED <<stream, openRes, byte_order, next_ifd_offset, ifdsOut, ifd,
                   ifdOut, entry, vals, valsOut, u32In, u32Out>>

\* T::read_from_u32(source, n, count), called directly
ReadFromU32Call ==
    /\ u32In.kind = "Args" /\ u32Out = NotCalled
    /\ u32Out' = read_from_u32(u32In.T, u32In.source, u32In.n, u32In.count)
    /\ UNCHANGED <<stream, pos, openRes, byte_order, next_ifd_offset, ifdsOut, ifd,
                   ifdOut, entry, vals, valsOut, allOut, u32In, io>>

(***************************************************************************)
(* Spec: a document is opened and its IFD chain and directories are        *)
(* walked.                                                                 *)
(***************************************************************************)
Next ==
    \/ Open
    \/ \E it \in 1..MaxIters, keep \in BOOLEAN : IfdsNext(it, keep)
    \/ IfdNext(NoFault)

Spec == Init /\ [][Next]_vars

(***************************************************************************)
(* SpecFault: the chain and the directories of a well-formed document are  *)
(* walked on a source that may report an error on any stream operation of  *)
(* an entry read.                                                          *)
(***************************************************************************)
FaultDocs ==
    {ChainDoc(o, n1, n1, SecondIfdOffset(n1), 1, 0) : o \in Orders, n1 \in 1..MaxEntries}

InitFault ==
    /\ stream \in FaultDocs
    /\ pos = 0
    /\ openRes = "none" /\ byte_order = "none" /\ next_ifd_offset = 0
    /\ Idle

NextFault ==
    \/ Open
    \/ \E it \in 1..MaxIters, keep \in BOOLEAN : IfdsNext(it, keep)
    \/ \E fail \in {NoFault} \cup EntryOps : IfdNext(fail)

SpecFault == InitFault /\ [][NextFault]_vars

(***************************************************************************)
(* SpecDir: the directory of a document of one IFD is read; its entries    *)
(* carry any type code, known or not.                                      *)
(***************************************************************************)
DirCodes == (0..13) \cup {255, 256, 65535}

\* the k-th entry of a directory whose entries have type code c
DirEntry(order, k, c) ==
    EncEntry(order, 256 + k, c, U32(k), <<k, 2, 3, 4>>)

RECURSIVE DirEntries(_, _, _)
DirEntries(order, n, c) ==
    IF n = 0 THEN <<>> ELSE DirEntries(order, n - 1, c) \o DirEntry(order, n, c)

DirDoc(order, n, c) ==
    Header(order) \o EncU16(n, order) \o DirEntries(order, n, c) \o EncU16(0, order)

DirDocs == {DirDoc(o, n, c) : o \in Orders, n \in 1..MaxEntries, c \in DirCodes}

InitDir ==
    /\ stream \in DirDocs
    /\ pos = 0
    /\ openRes = "none" /\ byte_order = "none" /\ next_ifd_offset = 0
    /\ Idle

NextDir ==
    \/ Open
    \/ \E it \in 1..MaxIters, keep \in BOOLEAN : IfdsNext(it, keep)
    \/ IfdNext(NoFault)

SpecDir == InitDir /\ [][NextDir]_vars

(***************************************************************************)
(* SpecMixed: the walker, a directory, a value sequence and all_values of  *)
(* one document are driven in any interleaving.  The document has two      *)
(* IFDs; the first holds a Referenced Short entry and a Referenced Ascii   *)
(* entry over the same data, the second an Embedded Byte entry.            *)
(***************************************************************************)
MixedDoc(order) ==
    Header(order)
    \o EncU16(2, order)
    \o EncEntry(order, 256, 3, U32(3), EncU32(U32(DataOffset(2)), order))
    \o EncEntry(order, 270, 2, U32(5), EncU32(U32(DataOffset(2)), order))
    \o EncU16(SecondIfdOffset(2), order)
    \o EncU16(1, order) \o EncEntry(order, 257, 1, U32(2), <<1, 2, 3, 4>>)
    \o EncU16(0, order)
    \o DataArea

MixedDocs == {MixedDoc(o) : o \in Orders}

InitMixed ==
    /\ stream \in MixedDocs
    /\ pos = 0
    /\ openRes = "none" /\ byte_order = "none" /\ next_ifd_offset = 0
    /\ Idle

NextMixed ==
    \/ Open
    \/ \E it \in 1..MaxIters, keep \in BOOLEAN : IfdsNext(it, keep)
    \/ IfdNext(NoFault)
    \/ \E T \in ReprTypes, oc \in OverflowChecks : ValuesCall(T, oc)
    \/ \E oc \in OverflowChecks : ValuesNext(oc)
    \/ \E T \in ReprTypes, oc \in OverflowChecks : AllValues(T, oc)

SpecMixed == InitMixed /\ [][NextMixed]_vars

(***************************************************************************)
(* SpecEntry: the values of one directory entry.  The document holds one   *)
(* IFD with one entry of any type code, count and value field; the         *)
(* specification starts where the caller has opened the document, pulled   *)
(* the IFD and pulled the entry.                                           *)
(***************************************************************************)
TypeCodes == 1..13

BigCounts == {<<16384, 0>>, <<32768, 0>>, <<32768, 3>>, <<65535, 65535>>}

Counts == {U32(c) : c \in 0..MaxCount} \cup BigCounts

\* where the data area of an entry document lies
EntryDataOffset == FirstIfdOffset + 2 + EntryBytes + 2

\* the stream bytes of the value field: small values, text, and the offset of
\* the data area in either byte order
ValueFields ==
    {<<a, b, c, 0>> : a \in {0, 97, 100}, b \in {0, 1}, c \in {0, 98}}
    \cup {<<EntryDataOffset, 0, 0, 0>>, <<0, 0, 0, EntryDataOffset>>,
          <<1, 2, 3, 4>>, <<255, 254, 253, 128>>}

EntryDoc(order, code, count, vbytes) ==
    Header(order) \o EncU16(1, order) \o EncEntry(order, 256, code, count, vbytes)
    \o EncU16(0, order) \o DataArea

EntryStreams ==
    {EntryDoc(o, code, c, vb) :
        o \in Orders, code \in TypeCodes, c \in Counts, vb \in ValueFields}

InitEntry ==
    \E s \in EntryStreams :
        LET o == ifds(s, 0)
            w == read_ifd(s, o.order, o.cursor, o.pos)
            r == read_entry(s, o.order, HeldIfd(w.out), w.pos, NoFault)
        IN  /\ stream = s
            /\ pos = r.pos
            /\ openRes = o.res /\ byte_order = o.order /\ next_ifd_offset = w.cursor
            /\ ifdsOut = <<[it |-> 1, out |-> w.out]>>
            /\ ifd = r.ifd
            /\ ifdOut = <<r.out>>
            /\ entry = r.out
            /\ vals = NoVals /\ valsOut = <<>> /\ allOut = NoCall
            /\ u32In = NotCalled /\ u32Out = NotCalled
            /\ io = r.io

NextEntry ==
    \/ \E T \in ReprTypes, oc \in OverflowChecks : ValuesCall(T, oc)
    \/ \E oc \in OverflowChecks : ValuesNext(oc)
    \/ \E T \in ReprTypes, oc \in OverflowChecks : AllValues(T, oc)

SpecEntry == InitEntry /\ [][NextEntry]_vars

(***************************************************************************)
(* SpecU32: read_from_u32 called directly on any word, index and count.    *)
(***************************************************************************)
Words ==
    {<<0, 0>>, <<0, 100>>, <<97 * TwoPow8, 98 * TwoPow8>>,
     <<1 * TwoPow8 + 2, 3 * TwoPow8 + 4>>, <<65535, 65535>>}

Indexes == {U32(n) : n \in 0..MaxCount} \cup {<<1, 0>>, <<65535, 65535>>}

InitU32 ==
    /\ stream = <<>> /\ pos = 0
    /\ openRes = "none" /\ byte_order = "none" /\ next_ifd_offset = 0
    /\ ifdsOut = <<>> /\ ifd = NoIfd /\ ifdOut = <<>> /\ entry = NoEntry
    /\ vals = NoVals /\ valsOut = <<>> /\ allOut = NoCall /\ io = <<>>
    /\ u32In \in {[kind |-> "Args", T |-> T, source |-> w, n |-> n, count |-> c] :
                    T \in ReprTypes, w \in Words, n \in Indexes, c \in Counts}
    /\ u32Out = NotCalled

NextU32 == ReadFromU32Call

SpecU32 == InitU32 /\ [][NextU32]_vars

(***************************************************************************)
(* Properties.                                                             *)
(***************************************************************************)
\* the four headers the format allows: "II" 42 little-endian, "MM" 42 big-endian
ValidHeader(s) ==
    \/ SubSeq(s, 1, 4) = <<73, 73, 42, 0>>
    \/ SubSeq(s, 1, 4) = <<77, 77, 0, 42>>

ValidBom(s) == SubSeq(s, 1, 2) \in {<<73, 73>>, <<77, 77>>}

\* C1: on a stream of at least 4 bytes, ifds succeeds exactly when the first two
\* bytes are "II" or "MM" and the next 16-bit value, read in that order, is 42;
\* otherwise it fails with InvalidFormat, a bad BOM before the magic is read, and
\* no IFD is exposed.
C1_HeaderDecidesOpen ==
    (openRes # "none" /\ Len(stream) >= 4) =>
        /\ (openRes = "Ok") <=> ValidHeader(stream)
        /\ ~ValidHeader(stream) => openRes = "InvalidFormat"
        /\ ~ValidBom(stream) => (pos = 2 /\ io = <<"read_exact">>)
        /\ openRes # "Ok" => (ifdsOut = <<>> /\ ifd = NoIfd /\ entry = NoEntry)

\* a little-endian marker followed by the big-endian encoding of 42 was refused
C1_Witness ==
    /\ openRes = "InvalidFormat"
    /\ Len(stream) >= 4
    /\ SubSeq(stream, 1, 4) = <<73, 73, 0, 42>>

\* C2: after a pull of the IFD sequence that yields an error, every later pull
\* yields no element.
C2_OneErrorThenExhausted ==
    \A i, j \in DOMAIN ifdsOut :
        (i < j /\ ifdsOut[i].out.kind = "Err") => ifdsOut[j].out = None

\* a pull of the IFD sequence has just happened
IfdsPulled == Len(ifdsOut') = Len(ifdsOut) + 1

\* C7: once the chain cursor of an open document is 0 it stays 0, and every pull
\* of the IFD sequence, by any iterator, yields no element and performs no
\* stream operation.
C7_ChainEndAbsorbing ==
    [][(openRes = "Ok" /\ next_ifd_offset = 0) =>
          /\ next_ifd_offset' = 0
          /\ IfdsPulled =>
                /\ ifdsOut'[Len(ifdsOut')].out = None
                /\ io' = <<>>
                /\ pos' = pos]_vars

\* two IFDs were yielded, the chain pointer after the second was 0, and a pull
\* by another iterator yielded nothing
C7_Witness ==
    /\ Len(ifdsOut) = 3
    /\ ifdsOut[1].out.kind = "Ifd" /\ ifdsOut[2].out.kind = "Ifd"
    /\ ifdsOut[3].out = None
    /\ ifdsOut[3].it # ifdsOut[2].it
    /\ next_ifd_offset = 0

\* the stream bytes of the value field of the entry of an entry document
ValueFieldBytes == SubSeq(stream, FirstIfdOffset + 2 + 8 + 1, FirstIfdOffset + 2 + EntryBytes)

\* the size of one element as the format gives it
ElementSize(T) == EntryTypeSize(ReprEntryType(T)).v

\* the exact integer product size(T) * count is at most 4
ExactFits(T, count) == count[1] = 0 /\ ElementSize(T) * count[2] <= EmbedLimit

\* C3: for an entry whose type matches T, values returns Embedded exactly when
\* the exact product size(T) * count is at most 4 and Referenced exactly when it
\* exceeds 4; for another entry type, or Unknown, it returns no sequence.
C3_EmbeddedIffExactProductFits ==
    vals # NoVals =>
        IF entry.entry_type = ReprEntryType(vals.T)
        THEN /\ (vals.kind = "Embedded") <=> ExactFits(vals.T, entry.count)
             /\ (vals.kind = "Referenced") <=> ~ExactFits(vals.T, entry.count)
        ELSE vals.kind = "NoSeq"

\* the i-th (from 1) 16-bit element of the value field, in the document's order
Element16(vb, i, order) ==
    IF order = "Little" THEN vb[2 * i - 1] + 256 * vb[2 * i]
                        ELSE 256 * vb[2 * i - 1] + vb[2 * i]

Signed(v, bits) == IF v >= 2 ^ (bits - 1) THEN v - 2 ^ bits ELSE v

\* the i-th (from 1) element the value field holds for representation T
EncodedElement(T, vb, i, order) ==
    CASE T \in {"Byte", "Undefined"} -> <<vb[i]>>
      [] T = "SignedByte" -> <<Signed(vb[i], 8)>>
      [] T = "Short" -> <<Element16(vb, i, order)>>
      [] T = "SignedShort" -> <<Signed(Element16(vb, i, order), 16)>>

\* C4: for an embedded entry of type Byte, SignedByte, Undefined, Short or
\* SignedShort, in either byte order, the k-th pull of values::<T>() yields the
\* k-th element the value field holds in the stream, for k up to count, and the
\* pull after the last element yields nothing.
C4_EmbeddedRoundTrip ==
    (/\ vals.kind = "Embedded"
     /\ vals.T \in {"Byte", "SignedByte", "Undefined", "Short", "SignedShort"}
     /\ ExactFits(vals.T, entry.count)) =>
        \A k \in DOMAIN valsOut :
            IF k <= entry.count[2]
            THEN valsOut[k] = Some(EncodedElement(vals.T, ValueFieldBytes, k, byte_order))
            ELSE valsOut[k] = None

\* the zero-terminated substrings of bs, in order; cur is the one being read
RECURSIVE Substrings(_, _)
Substrings(bs, cur) ==
    IF bs = <<>> THEN <<>>
    ELSE IF Head(bs) = 0 THEN <<cur>> \o Substrings(Tail(bs), <<>>)
    ELSE Substrings(Tail(bs), Append(cur, Head(bs)))

\* C5: for an embedded Ascii entry with count c whose four value-field bytes are
\* zero-terminated substrings packed contiguously, at least c of them, the k-th
\* pull of values::<Ascii>() yields the k-th substring, for k up to c, and the
\* pull after yields nothing.
C5_EmbeddedAsciiSubstrings ==
    (/\ vals.kind = "Embedded" /\ vals.T = "Ascii"
     /\ ValueFieldBytes[4] = 0
     /\ entry.count[1] = 0
     /\ entry.count[2] <= Len(Substrings(ValueFieldBytes, <<>>))) =>
        \A k \in DOMAIN valsOut :
            IF k <= entry.count[2]
            THEN valsOut[k] = Some(Substrings(ValueFieldBytes, <<>>)[k])
            ELSE valsOut[k] = None

\* C6: all_values, when it returns a result for a matching known type, returns
\* an error or a collection of exactly count elements.
C6_AllValuesCompleteOrError ==
    (/\ allOut.kind = "Called"
     /\ entry.entry_type = ReprEntryType(allOut.T)
     /\ allOut.out.kind # "Panic") =>
        \/ allOut.out.kind = "Err"
        \/ (allOut.out.kind = "Ok" /\ U32(Len(allOut.out.v)) = entry.count)

\* C8: read_from_u32 returns Some(value) or None for every word, index and
\* count, in every representation type.
C8_ReadFromU32Total ==
    u32Out # NotCalled => u32Out.kind \in {"Some", "None"}

\* C9: in both byte orders the byte recovered at logical position n of the
\* value field read from the entry is the n-th value-field byte of the stream.
C9_RecoveredByteIsStreamByte ==
    entry.kind = "Entry" =>
        \A n \in 0..3 : nbyte(entry.offset, n) = ValueFieldBytes[n + 1]

NumericEmbeddable ==
    {"Byte", "SignedByte", "Undefined", "Short", "SignedShort", "Long", "SignedLong"}

\* C10: for a numeric representation of element size s, read_from_u32 yields a
\* value exactly when n < count and (n + 1) * s <= 4.
C10_NumericValueIffInRange ==
    (u32Out # NotCalled /\ u32In.T \in NumericEmbeddable) =>
        ((u32Out.kind = "Some") <=>
            (/\ U32Lt(u32In.n, u32In.count)
             /\ u32In.n[1] = 0
             /\ (u32In.n[2] + 1) * ElementSize(u32In.T) <= EmbedLimit))

\* C11: after a pull of an Ifd's entry sequence that yields an error, every
\* later pull on that Ifd yields no element: no entry and no further error.
C11_EntryErrorHalts ==
    \A i, j \in DOMAIN ifdOut :
        (i < j /\ ifdOut[i].kind = "Err") => ifdOut[j] = None

\* C12: after a pull of a Referenced value sequence that fails, every later
\* pull on that sequence yields no element: no value and no further error.
C12_ReferencedOneError ==
    vals.kind = "Referenced" =>
        \A i, j \in DOMAIN valsOut :
            (i < j /\ valsOut[i].kind = "Err") => valsOut[j] = None

\* the stream bytes one element occupies: the width of a number, the bytes of a
\* string and its terminator
OccupiedBytes(T, v) ==
    CASE T = "Ascii" -> Len(v) + 1
      [] T \in {"Byte", "SignedByte", "Undefined"} -> 1
      [] T \in {"Short", "SignedShort"} -> 2
      [] T \in {"Long", "SignedLong", "Float"} -> 4
      [] OTHER -> 8

\* the stream bytes occupied by the elements among the results outs
RECURSIVE SumOccupied(_, _)
SumOccupied(T, outs) ==
    IF outs = <<>> THEN 0
    ELSE (IF Head(outs).kind = "Some" THEN OccupiedBytes(T, Head(outs).v) ELSE 0)
         + SumOccupied(T, Tail(outs))

\* C13: in a Referenced sequence the running offset is the value field plus the
\* stream bytes occupied by the elements yielded so far, without wrapping, and
\* each element yielded is the one that starts right after the one before it.
C13_RunningOffsetExact ==
    vals.kind = "Referenced" =>
        /\ ~U32AddOverflows(entry.offset, U32(SumOccupied(vals.T, valsOut)))
        /\ vals.data = U32Add(entry.offset, U32(SumOccupied(vals.T, valsOut)))
        /\ \A k \in DOMAIN valsOut :
              valsOut[k].kind = "Some" =>
                  valsOut[k].v =
                      read_from(vals.T, stream,
                                U32Pos(entry.offset)
                                    + SumOccupied(vals.T, SubSeq(valsOut, 1, k - 1)),
                                byte_order).v

\* what draining a sequence collects: the values up to its first pull that
\* yields no value
RECURSIVE LeadingValues(_)
LeadingValues(outs) ==
    IF outs = <<>> THEN <<>>
    ELSE IF Head(outs).kind # "Some" THEN <<>>
    ELSE <<Head(outs).v>> \o LeadingValues(Tail(outs))

\* C14: when no stream operation fails, the values pulled from Entry::values
\* are, in order, the first elements of the collection all_values returns for
\* the same entry and representation, and all of it once the sequence has been
\* drained.
C14_EagerEqualsLazy ==
    (/\ allOut.kind = "Called" /\ allOut.out.kind = "Ok"
     /\ vals.kind \in {"Embedded", "Referenced"}
     /\ \A k \in DOMAIN valsOut : valsOut[k].kind \in {"Some", "None"}) =>
        LET lazy == LeadingValues(valsOut)
            eager == allOut.out.v
        IN  /\ Len(lazy) <= Len(eager)
            /\ lazy = SubSeq(eager, 1, Len(lazy))
            /\ Len(lazy) < Len(valsOut) => lazy = eager

\* C15: whatever chain pointers the stream holds, the IFD sequence yields no
\* IFD offset twice, so it yields at most as many Ifd values as the stream has
\* IFD blocks and comes to its end.
C15_NoIfdYieldedTwice ==
    \A i, j \in DOMAIN ifdsOut :
        (i < j /\ ifdsOut[i].out.kind = "Ifd" /\ ifdsOut[j].out.kind = "Ifd") =>
            ifdsOut[i].out.ifd_offset # ifdsOut[j].out.ifd_offset

\* the 16-bit value the stream holds at position p, in the document's order
\* (-1 where the stream ends before it)
U16At(s, p, order) ==
    IF p + 2 > Len(s) THEN -1
    ELSE IF order = "Little" THEN s[p + 1] + 256 * s[p + 2]
                             ELSE 256 * s[p + 1] + s[p + 2]

\* the chain pointer the stream holds behind the entries of a yielded Ifd
PointerBehind(s, d, order) == U16At(s, d.ifd_offset + 2 + 12 * d.total_entries, order)

\* the pulls of the IFD sequence that yielded an Ifd, and the last of them
\* before pull i
IfdPulls == {i \in DOMAIN ifdsOut : ifdsOut[i].out.kind = "Ifd"}
IfdPullsBefore(i) == {j \in IfdPulls : j < i}
LastOf(S) == CHOOSE i \in S : \A j \in S : j <= i

\* C16: the first Ifd yielded has offset 4; an Ifd yielded after the Ifd at o
\* with n entries has the offset stored at o + 2 + 12 * n; every Ifd yielded
\* has the entry count stored at its offset; and the shared cursor holds the
\* chain pointer of the last Ifd as soon as that Ifd is yielded.
C16_WalkerFollowsChain ==
    openRes = "Ok" =>
        /\ \A i \in IfdPulls :
              /\ ifdsOut[i].out.ifd_offset =
                    IF IfdPullsBefore(i) = {} THEN 4
                    ELSE PointerBehind(stream, ifdsOut[LastOf(IfdPullsBefore(i))].out,
                                       byte_order)
              /\ ifdsOut[i].out.total_entries =
                    U16At(stream, ifdsOut[i].out.ifd_offset, byte_order)
        /\ next_ifd_offset =
              IF IfdPulls = {} THEN 4
              ELSE PointerBehind(stream, ifdsOut[LastOf(IfdPulls)].out, byte_order)

\* an Ifd of two entries was yielded at offset 4 and then the Ifd of one entry
\* its chain pointer names
C16_Witness ==
    /\ Len(ifdsOut) >= 2
    /\ ifdsOut[1].out = [kind |-> "Ifd", ifd_offset |-> 4, total_entries |-> 2]
    /\ ifdsOut[2].out = [kind |-> "Ifd", ifd_offset |-> 32, total_entries |-> 1]
    /\ next_ifd_offset = 0

\* the 32-bit value the stream holds at position p, in the document's order
U32At(s, p, order) ==
    IF order = "Little" THEN <<U16At(s, p + 2, order), U16At(s, p, order)>>
                        ELSE <<U16At(s, p, order), U16At(s, p + 2, order)>>

\* the entry type the format gives type code c
TypeOfCode(c) ==
    CASE c = 1 -> [name |-> "Byte", code |-> 0]
      [] c = 2 -> [name |-> "Ascii", code |-> 0]
      [] c = 3 -> [name |-> "Short", code |-> 0]
      [] c = 4 -> [name |-> "Long", code |-> 0]
      [] c = 5 -> [name |-> "Rational", code |-> 0]
      [] c = 6 -> [name |-> "SignedByte", code |-> 0]
      [] c = 7 -> [name |-> "Undefined", code |-> 0]
      [] c = 8 -> [name |-> "SignedShort", code |-> 0]
      [] c = 9 -> [name |-> "SignedLong", code |-> 0]
      [] c = 10 -> [name |-> "SignedRational", code |-> 0]
      [] c = 11 -> [name |-> "Float", code |-> 0]
      [] c = 12 -> [name |-> "Double", code |-> 0]
      [] OTHER -> [name |-> "Unknown", code |-> c]

\* the entry the 12 stream bytes at position p hold
EntryAt(s, p, order) ==
    [kind |-> "Entry",
     tag |-> U16At(s, p, order),
     entry_type |-> TypeOfCode(U16At(s, p + 2, order)),
     count |-> U32At(s, p + 4, order),
     offset |-> U32At(s, p + 8, order)]

\* C17: the k-th pull (from 1) on an Ifd with offset o and n entries yields,
\* for k up to n, the entry held by the 12 bytes at o + 2 + 12 * (k - 1): tag,
\* type code, count and value field in the document's byte order, a type code
\* outside 1..12 as Unknown(code); every later pull yields no element.
C17_EntriesDecoded ==
    ifd.kind = "Ifd" =>
        \A k \in DOMAIN ifdOut :
            IF k <= ifd.total_entries
            THEN ifdOut[k] = EntryAt(stream, ifd.ifd_offset + 2 + 12 * (k - 1), byte_order)
            ELSE ifdOut[k] = None

\* a big-endian directory of two entries of type code 13 was read to its end
C17_Witness ==
    /\ byte_order = "Big"
    /\ Len(ifdOut) = 3
    /\ ifdOut[1] = [kind |-> "Entry", tag |-> 257,
                    entry_type |-> [name |-> "Unknown", code |-> 13],
                    count |-> <<0, 1>>, offset |-> <<258, 772>>]
    /\ ifdOut[2].kind = "Entry" /\ ifdOut[2].tag = 258
    /\ ifdOut[3] = None

\* the results of k pulls of the IFD sequence driven alone from cursor c
RECURSIVE WalkAlone(_, _, _, _, _)
WalkAlone(s, order, c, p, k) ==
    IF k = 0 THEN <<>>
    ELSE LET r == read_ifd(s, order, c, p)
         IN  <<r.out>> \o WalkAlone(s, order, r.cursor, r.pos, k - 1)

\* the results of k pulls of Ifd d driven alone
RECURSIVE EntriesAlone(_, _, _, _, _)
EntriesAlone(s, order, d, p, k) ==
    IF k = 0 THEN <<>>
    ELSE LET r == IfdPull(s, order, d, p, NoFault)
         IN  <<r.out>> \o EntriesAlone(s, order, r.ifd, r.pos, k - 1)

\* the results of k pulls of value sequence v driven alone
RECURSIVE ValuesAlone(_, _, _, _, _)
ValuesAlone(s, order, v, p, k) ==
    IF k = 0 THEN <<>>
    ELSE LET r == ValuesPull(s, order, v, p, FALSE)
         IN  <<r.out>> \o ValuesAlone(s, order, r.vals, r.pos, k - 1)

\* C18: in every interleaving of pulls on the IFD walker, the Ifd held, the
\* value sequence held and all_values, each object has yielded the results it
\* yields when driven alone to the same number of pulls.
C18_InterleavingIndependent ==
    openRes = "Ok" =>
        /\ [i \in DOMAIN ifdsOut |-> ifdsOut[i].out]
              = WalkAlone(stream, byte_order, 4, 4, Len(ifdsOut))
        /\ ifd.kind = "Ifd" =>
              ifdOut = EntriesAlone(stream, byte_order, [ifd EXCEPT !.current_entry = 0],
                                    ifd.ifd_offset + 4 + 12 * ifd.total_entries,
                                    Len(ifdOut))
        /\ vals.kind \in {"Embedded", "Referenced"} =>
              valsOut = ValuesAlone(stream, byte_order,
                                    [vals EXCEPT !.current = <<0, 0>>,
                                                 !.data = entry.offset],
                                    0, Len(valsOut))
        /\ allOut.kind = "Called" =>
              allOut.out = all_values(entry, allOut.T, stream, byte_order, 0, FALSE).out

\* the walker yielded the second Ifd after three values of a Referenced
\* sequence of the first had been pulled; all_values has been called too
C18_Witness ==
    /\ Len(ifdsOut) = 2 /\ ifdsOut[2].out.kind = "Ifd"
    /\ io = <<"seek", "read_u16", "seek", "read_u16">>
    /\ ifd.kind = "Ifd" /\ ifd.ifd_offset = 4 /\ Len(ifdOut) = 2
    /\ vals.kind = "Referenced" /\ Len(valsOut) = 3
    /\ valsOut[3].kind = "Some"
    /\ allOut.kind = "Called" /\ allOut.out.kind = "Ok"

\* the Ifd value yielded for the IFD block at offset o with n entries
IfdAt(o, n) == [kind |-> "Ifd", ifd_offset |-> o, total_entries |-> n]

\* the pulls of the IFD sequence so far, whichever iterator made them, have
\* yielded the IFDs of chain in order, each once, and nothing after the last
YieldsChain(chain) ==
    \A k \in DOMAIN ifdsOut :
        ifdsOut[k].out = IF k <= Len(chain) THEN chain[k] ELSE None

\* C19: over a well-formed chain of one or two IFDs, pulled through any
\* number of iterators in any interleaving, the k-th pull overall yields the
\* k-th IFD of the chain and every pull after the last IFD yields no element.
C19_SharedCursor ==
    openRes = "Ok" =>
        \A o \in Orders, n1 \in 1..MaxEntries :
            /\ stream = ChainDoc(o, n1, n1, SecondIfdOffset(n1), 1, 0) =>
                  YieldsChain(<<IfdAt(4, n1), IfdAt(SecondIfdOffset(n1), 1)>>)
            /\ stream = ChainDoc(o, n1, n1, 0, 1, 0) =>
                  YieldsChain(<<IfdAt(4, n1)>>)

\* the first IFD went to iterator 1, the second to iterator 2, and a further
\* pull of iterator 1 found the chain at its end
C19_Witness ==
    /\ Len(ifdsOut) = 3
    /\ ifdsOut[1] = [it |-> 1, out |-> IfdAt(4, 1)]
    /\ ifdsOut[2] = [it |-> 2, out |-> IfdAt(20, 1)]
    /\ ifdsOut[3] = [it |-> 1, out |-> None]

NeverEmbedded == {"Double", "Rational", "SignedRational"}

\* C20: for an entry of type Double, Rational or SignedRational with count at
\* least 1, values with the matching representation returns the Referenced
\* variant, never the Embedded one.
C20_WideTypesNeverEmbed ==
    (/\ vals # NoVals
     /\ vals.T \in NeverEmbedded
     /\ entry.entry_type = ReprEntryType(vals.T)
     /\ entry.count # <<0, 0>>) =>
        vals.kind = "Referenced"

====
